---- MODULE Spec2Model ----
(***************************************************************************)
(* A state-machine model of the FlinkApplication construct                 *)
(* (source/lib/kda-flink-application.ts): the constructor, statement by    *)
(* statement, the document it leaves behind, the resolution of that        *)
(* document by the templating engine, and the lifecycle events of the      *)
(* Custom::VpcConfiguration resource it declares.                          *)
(***************************************************************************)
EXTENDS Naturals, Sequences, FiniteSets

VARIABLES
    pc,                 \* position in the constructor / the deployment
    props,              \* FlinkApplicationProps handed to the constructor
    error,              \* the Error thrown by the constructor, if any
    defined,            \* construct ids, in the order they were defined
    logGroup,           \* logs.LogGroup 'LogGroup'
    logStream,          \* logs.LogStream 'LogStream'
    role,               \* iam.Role 'AppRole'
    grants,             \* policy statements attached to AppRole
    suppressions,       \* cfn_nag metadata put on policies
    conditions,         \* CfnCondition's, by logical id
    application,        \* analytics.CfnApplicationV2 'Application'
    logging,            \* CfnApplicationCloudWatchLoggingOptionV2 'Logging'
    callbackRole,       \* ExecutionRole 'CustomResourceRole'
    callbackFunction,   \* lambda.Function 'CustomResource'
    customResource,     \* cdk.CustomResource 'VpcConfiguration'
    resolved,           \* what the templating engine resolved the document to
    vpcConfigurations,  \* the application's network-attachment state
    lastRequest,        \* the lifecycle request handled last
    previousRequest,    \* the lifecycle request handled before that one
    before,             \* vpcConfigurations before the request handled last
    invocations         \* lifecycle requests handled so far

vars == <<pc, props, error, defined, logGroup, logStream, role, grants,
          suppressions, conditions, application, logging, callbackRole,
          callbackFunction, customResource, resolved, vpcConfigurations,
          lastRequest, previousRequest, before, invocations>>

constructVars == <<logGroup, logStream, role, grants, suppressions, conditions,
                   application, logging, callbackRole, callbackFunction,
                   customResource>>

lifecycleVars == <<vpcConfigurations, lastRequest, previousRequest, before,
                   invocations>>

----------------------------------------------------------------------------
(* Bounds of the model *)

MaxIds == 2
MaxInvocations == 3

----------------------------------------------------------------------------
(* Values: a string known at definition time, or a token standing for a    *)
(* template parameter that the templating engine resolves later.           *)

Concrete(s) == [unresolved |-> FALSE, text |-> s]
Token(p) == [unresolved |-> TRUE, text |-> p]

isUnresolvedNever(v) == FALSE

isUnresolved(v) == v.unresolved

(* An optional list (string[] | undefined). *)
Absent == [present |-> FALSE, ids |-> <<>>]
Supplied(l) == [present |-> TRUE, ids |-> l]

(* Pieces of a template string. *)
Lit(s) == [kind |-> "lit", v |-> s]
Pseudo(p) == [kind |-> "pseudo", v |-> p]
Ref(id) == [kind |-> "ref", v |-> id]
GetAtt(id) == [kind |-> "getatt", v |-> id]

Range(s) == {s[i] : i \in 1..Len(s)}

IndexOf(s, x) == IF x \in Range(s) THEN CHOOSE i \in 1..Len(s) : s[i] = x ELSE 0

----------------------------------------------------------------------------
(* The inputs *)

AllowedLogLevels == {"DEBUG", "ERROR", "INFO", "WARN"}

AllowedMetricLevels == {"APPLICATION", "OPERATOR", "PARALLELISM", "TASK"}

LogLevelInputs ==
    {Concrete(s) : s \in AllowedLogLevels \cup {"TRACE"}} \cup {Token("LogLevel")}

MetricsLevelInputs ==
    {Concrete(s) : s \in AllowedMetricLevels \cup {"NONE"}} \cup {Token("MetricsLevel")}

LogLevelParameterValues == {"INFO", "TRACE"}
MetricsLevelParameterValues == {"TASK", "NONE"}

ToggleInputs == {"true", "false", "TRUE"}

CodeBucketArns == {"arn:aws:s3:::code-a", "arn:aws:s3:::code-b"}

SubnetPool == {"subnet-a", "subnet-b"}
SecurityGroupPool == {"sg-a"}

Lists(pool) == UNION {[1..n -> pool] : n \in 0..MaxIds}

OptionalLists(pool) == {Absent} \cup {Supplied(l) : l \in Lists(pool)}

Props ==
    [inputStream : {"InputStream"},
     outputBucket : {"OutputBucket"},
     logsRetentionDays : {"ONE_YEAR"},
     logLevel : LogLevelInputs,
     metricsLevel : MetricsLevelInputs,
     codeBucketArn : CodeBucketArns,
     codeFileKey : {"app.jar"},
     enableSnapshots : ToggleInputs,
     enableAutoScaling : ToggleInputs,
     subnetIds : OptionalLists(SubnetPool),
     securityGroupIds : OptionalLists(SecurityGroupPool)]

NoError == [thrown |-> FALSE, message |-> <<>>]

Init ==
    /\ pc = "validateLogLevel"
    /\ props \in Props
    /\ error = NoError
    /\ defined = <<>>
    /\ logGroup = {}
    /\ logStream = {}
    /\ role = {}
    /\ grants = {}
    /\ suppressions = {}
    /\ conditions = {}
    /\ application = {}
    /\ logging = {}
    /\ callbackRole = {}
    /\ callbackFunction = {}
    /\ customResource = {}
    /\ resolved = {}
    /\ vpcConfigurations = <<>>
    /\ lastRequest = {}
    /\ previousRequest = {}
    /\ before = <<>>
    /\ invocations = 0

----------------------------------------------------------------------------
(* Validation *)

LogLevelErrorWithoutValue(v) == [thrown |-> TRUE, message |-> <<"Unknown log level">>]

LogLevelError(v) == [thrown |-> TRUE, message |-> <<"Unknown log level: ", v.text>>]

MetricsLevelError(v) ==
    [thrown |-> TRUE, message |-> <<"Unknown metrics level: ", v.text>>]

LogLevelRejectedByMetricLevels(v) ==
    ~isUnresolved(v) /\ v.text \notin AllowedMetricLevels

LogLevelRejected(v) == ~isUnresolved(v) /\ v.text \notin AllowedLogLevels

MetricsLevelRejected(v) == ~isUnresolved(v) /\ v.text \notin AllowedMetricLevels

ValidateLogLevel ==
    /\ pc = "validateLogLevel"
    /\ IF LogLevelRejected(props.logLevel)
       THEN /\ error' = LogLevelError(props.logLevel)
            /\ pc' = "failed"
       ELSE /\ error' = error
            /\ pc' = "validateMetricsLevel"
    /\ UNCHANGED <<props, defined, constructVars, resolved, lifecycleVars>>

ValidateMetricsLevelAfterLogGroup ==
    /\ pc = "validateMetricsLevel"
    /\ logGroup' = {[id |-> "LogGroup",
                     retention |-> props.logsRetentionDays,
                     removalPolicy |-> "RETAIN"]}
    /\ defined' = Append(defined, "LogGroup")
    /\ IF MetricsLevelRejected(props.metricsLevel)
       THEN /\ error' = MetricsLevelError(props.metricsLevel)
            /\ pc' = "failed"
       ELSE /\ error' = error
            /\ pc' = "logStream"
    /\ UNCHANGED <<props, logStream, role, grants, suppressions, conditions,
                   application, logging, callbackRole, callbackFunction,
                   customResource, resolved, lifecycleVars>>

ValidateMetricsLevel ==
    /\ pc = "validateMetricsLevel"
    /\ IF MetricsLevelRejected(props.metricsLevel)
       THEN /\ error' = MetricsLevelError(props.metricsLevel)
            /\ pc' = "failed"
       ELSE /\ error' = error
            /\ pc' = "logGroup"
    /\ UNCHANGED <<props, defined, constructVars, resolved, lifecycleVars>>

----------------------------------------------------------------------------
(* Getters *)

ApplicationName == Ref("Application")

LogGroupName == Ref("LogGroup")

----------------------------------------------------------------------------
(* Log destination *)

DefineLogGroup ==
    /\ pc = "logGroup"
    /\ logGroup' = {[id |-> "LogGroup",
                     retention |-> props.logsRetentionDays,
                     removalPolicy |-> "RETAIN"]}
    /\ defined' = Append(defined, "LogGroup")
    /\ pc' = "logStream"
    /\ UNCHANGED <<props, error, logStream, role, grants, suppressions, conditions,
                   application, logging, callbackRole, callbackFunction,
                   customResource, resolved, lifecycleVars>>

DefineLogStream ==
    /\ pc = "logStream"
    /\ logStream' = {[id |-> "LogStream",
                      logGroup |-> LogGroupName,
                      removalPolicy |-> "RETAIN"]}
    /\ defined' = Append(defined, "LogStream")
    /\ pc' = "createRole"
    /\ UNCHANGED <<props, error, logGroup, role, grants, suppressions, conditions,
                   application, logging, callbackRole, callbackFunction,
                   customResource, resolved, lifecycleVars>>

----------------------------------------------------------------------------
(* Permission composer *)

CodePolicyStatementsBucketWide(bucketArn, fileKey) ==
    {[policy |-> "CodePolicy",
      actions |-> {"s3:GetObjectVersion", "s3:GetObject"},
      resources |-> {<<Lit(bucketArn), Lit("/*")>>}]}

CodePolicyStatements(bucketArn, fileKey) ==
    {[policy |-> "CodePolicy",
      actions |-> {"s3:GetObjectVersion", "s3:GetObject"},
      resources |-> {<<Lit(bucketArn), Lit("/"), Lit(fileKey)>>}]}

LogsPolicyStatements(logGroupArn) ==
    {[policy |-> "LogsPolicy",
      actions |-> {"logs:DescribeLogGroups"},
      resources |-> {<<Lit("arn:"), Pseudo("AWS::Partition"), Lit(":logs:"),
                       Pseudo("AWS::Region"), Lit(":"), Pseudo("AWS::AccountId"),
                       Lit(":log-group:*")>>}],
     [policy |-> "LogsPolicy",
      actions |-> {"logs:DescribeLogStreams", "logs:PutLogEvents"},
      resources |-> {<<logGroupArn>>}]}

VpcPolicyStatements ==
    {[policy |-> "VpcPolicy",
      actions |-> {"ec2:CreateNetworkInterface", "ec2:DescribeNetworkInterfaces",
                   "ec2:DescribeVpcs", "ec2:DeleteNetworkInterface",
                   "ec2:DescribeDhcpOptions", "ec2:DescribeSubnets",
                   "ec2:DescribeSecurityGroups"},
      resources |-> {<<Lit("*")>>}],
     [policy |-> "VpcPolicy",
      actions |-> {"ec2:CreateNetworkInterfacePermission"},
      resources |-> {<<Lit("arn:"), Pseudo("AWS::Partition"), Lit(":ec2:"),
                       Pseudo("AWS::Region"), Lit(":"), Pseudo("AWS::AccountId"),
                       Lit(":network-interface/*")>>}]}

createRole(bucketArn, fileKey) ==
    CodePolicyStatements(bucketArn, fileKey)
        \cup LogsPolicyStatements(GetAtt("LogGroup.Arn"))
        \cup VpcPolicyStatements

CreateRole ==
    /\ pc = "createRole"
    /\ role' = {[id |-> "AppRole", assumedBy |-> "kinesisanalytics.amazonaws.com"]}
    /\ grants' = grants \cup createRole(props.codeBucketArn, props.codeFileKey)
    /\ suppressions' = suppressions \cup
            {[policy |-> "VpcPolicy", id |-> "W12",
              reason |-> "Actions do not support resource level permissions"]}
    /\ defined' = defined \o <<"AppRole", "CodePolicy", "LogsPolicy", "VpcPolicy">>
    /\ pc' = "grantRead"
    /\ UNCHANGED <<props, error, logGroup, logStream, conditions, application,
                   logging, callbackRole, callbackFunction, customResource,
                   resolved, lifecycleVars>>

grantRead(stream) ==
    [policy |-> "DefaultPolicy",
     actions |-> {"kinesis:grantRead"},
     resources |-> {<<GetAtt(stream)>>}]

grantReadWrite(bucket) ==
    [policy |-> "DefaultPolicy",
     actions |-> {"s3:grantReadWrite"},
     resources |-> {<<GetAtt(bucket)>>}]

DefaultPolicy(ids) ==
    IF "DefaultPolicy" \in Range(ids) THEN ids ELSE Append(ids, "DefaultPolicy")

GrantRead ==
    /\ pc = "grantRead"
    /\ role # {}
    /\ grants' = grants \cup {grantRead(props.inputStream)}
    /\ defined' = DefaultPolicy(defined)
    /\ pc' = "grantReadWrite"
    /\ UNCHANGED <<props, error, logGroup, logStream, role, suppressions, conditions,
                   application, logging, callbackRole, callbackFunction,
                   customResource, resolved, lifecycleVars>>

GrantReadWrite ==
    /\ pc = "grantReadWrite"
    /\ role # {}
    /\ grants' = grants \cup {grantReadWrite(props.outputBucket)}
    /\ defined' = DefaultPolicy(defined)
    /\ pc' = "autoScalingCondition"
    /\ UNCHANGED <<props, error, logGroup, logStream, role, suppressions, conditions,
                   application, logging, callbackRole, callbackFunction,
                   customResource, resolved, lifecycleVars>>

----------------------------------------------------------------------------
(* Conditional feature resolver *)

conditionEquals(lhs, rhs) == [fn |-> "Fn::Equals", lhs |-> lhs, rhs |-> rhs]

conditionIf(conditionId, valueIfTrue, valueIfFalse) ==
    [fn |-> "Fn::If", condition |-> conditionId,
     valueIfTrue |-> valueIfTrue, valueIfFalse |-> valueIfFalse]

CfnCondition(logicalId, expression) ==
    [logicalId |-> logicalId, expression |-> expression]

autoScalingCondition == CfnCondition("EnableAutoScaling",
                                     conditionEquals(props.enableAutoScaling, "true"))

snapshotCondition == CfnCondition("EnableSnapshots",
                                  conditionEquals(props.enableSnapshots, "true"))

DefineAutoScalingCondition ==
    /\ pc = "autoScalingCondition"
    /\ conditions' = conditions \cup {autoScalingCondition}
    /\ defined' = Append(defined, "EnableAutoScaling")
    /\ pc' = "snapshotCondition"
    /\ UNCHANGED <<props, error, logGroup, logStream, role, grants, suppressions,
                   application, logging, callbackRole, callbackFunction,
                   customResource, resolved, lifecycleVars>>

DefineSnapshotCondition ==
    /\ pc = "snapshotCondition"
    /\ conditions' = conditions \cup {snapshotCondition}
    /\ defined' = Append(defined, "EnableSnapshots")
    /\ pc' = "application"
    /\ UNCHANGED <<props, error, logGroup, logStream, role, grants, suppressions,
                   application, logging, callbackRole, callbackFunction,
                   customResource, resolved, lifecycleVars>>

----------------------------------------------------------------------------
(* Application resource definition *)

autoScalingEnabled == conditionIf(autoScalingCondition.logicalId, TRUE, FALSE)

snapshotsEnabledByAutoScaling == conditionIf(autoScalingCondition.logicalId, TRUE, FALSE)

snapshotsEnabled == conditionIf(snapshotCondition.logicalId, TRUE, FALSE)

CfnApplicationV2 ==
    [id |-> "Application",
     runtimeEnvironment |-> "FLINK-1_8",
     serviceExecutionRole |-> GetAtt("AppRole.Arn"),
     bucketArn |-> props.codeBucketArn,
     fileKey |-> props.codeFileKey,
     codeContentType |-> "ZIPFILE",
     propertyGroupId |-> "FlinkApplicationProperties",
     propertyMap |-> [InputStreamName |-> Ref(props.inputStream),
                      OutputBucketName |-> Ref(props.outputBucket),
                      Region |-> Pseudo("AWS::Region")],
     monitoringConfiguration |-> [configurationType |-> "CUSTOM",
                                  logLevel |-> props.logLevel,
                                  metricsLevel |-> props.metricsLevel],
     parallelismConfiguration |-> [configurationType |-> "CUSTOM",
                                   autoScalingEnabled |-> autoScalingEnabled],
     checkpointConfiguration |-> [configurationType |-> "DEFAULT"],
     applicationSnapshotConfiguration |-> [snapshotsEnabled |-> snapshotsEnabled]]

DefineApplication ==
    /\ pc = "application"
    /\ role # {}
    /\ application' = {CfnApplicationV2}
    /\ defined' = Append(defined, "Application")
    /\ pc' = "configureLogging"
    /\ UNCHANGED <<props, error, logGroup, logStream, role, grants, suppressions,
                   conditions, logging, callbackRole, callbackFunction,
                   customResource, resolved, lifecycleVars>>

----------------------------------------------------------------------------
(* Logging attachment *)

logStreamArn(logStreamName) ==
    <<Lit("arn:"), Pseudo("AWS::Partition"), Lit(":logs:"), Pseudo("AWS::Region"),
      Lit(":"), Pseudo("AWS::AccountId"), Lit(":log-group:"), LogGroupName,
      Lit(":log-stream:"), logStreamName>>

configureLogging(logStreamName) ==
    [id |-> "Logging",
     applicationName |-> ApplicationName,
     logStreamArn |-> logStreamArn(logStreamName)]

ConfigureLogging ==
    /\ pc = "configureLogging"
    /\ logging' = {configureLogging(Ref("LogStream"))}
    /\ defined' = Append(defined, "Logging")
    /\ pc' = "createCustomResource"
    /\ UNCHANGED <<props, error, logGroup, logStream, role, grants, suppressions,
                   conditions, application, callbackRole, callbackFunction,
                   customResource, resolved, lifecycleVars>>

----------------------------------------------------------------------------
(* Network attachment request *)

vpcConfigDocumentAnyApplication(applicationName) ==
    {[actions |-> {"kinesisanalytics:AddApplicationVpcConfiguration",
                   "kinesisanalytics:DeleteApplicationVpcConfiguration",
                   "kinesisanalytics:DescribeApplication"},
      resources |-> {<<Lit("arn:"), Pseudo("AWS::Partition"),
                       Lit(":kinesisanalytics:"), Pseudo("AWS::Region"), Lit(":"),
                       Pseudo("AWS::AccountId"), Lit(":application/*")>>}]}

vpcConfigDocument(applicationName) ==
    {[actions |-> {"kinesisanalytics:AddApplicationVpcConfiguration",
                   "kinesisanalytics:DeleteApplicationVpcConfiguration",
                   "kinesisanalytics:DescribeApplication"},
      resources |-> {<<Lit("arn:"), Pseudo("AWS::Partition"),
                       Lit(":kinesisanalytics:"), Pseudo("AWS::Region"), Lit(":"),
                       Pseudo("AWS::AccountId"), Lit(":application/"),
                       applicationName>>}]}

(* ./lambda-role-cloudwatch: the role of a short-lived function, carrying  *)
(* the inline policy it is given.                                          *)
ExecutionRole(id, inlinePolicyName, inlinePolicyDocument) ==
    [id |-> id,
     inlinePolicies |-> {[name |-> inlinePolicyName,
                          statements |-> inlinePolicyDocument]}]

OrEmptyPassedAsIs(list) == list

(* subnets ?? [] *)
OrEmpty(list) == IF list.present THEN Supplied(list.ids) ELSE Supplied(<<>>)

VpcConfigurationProperties(subnets, securityGroups) ==
    [ApplicationName |-> ApplicationName,
     SubnetIds |-> OrEmpty(subnets),
     SecurityGroupIds |-> OrEmpty(securityGroups)]

VpcConfiguration(subnets, securityGroups) ==
    [id |-> "VpcConfiguration",
     serviceToken |-> GetAtt("CustomResource.Arn"),
     properties |-> VpcConfigurationProperties(subnets, securityGroups),
     resourceType |-> "Custom::VpcConfiguration"]

createCustomResourceIdsRequestFirst ==
    <<"VpcConfiguration", "CustomResourceRole", "CustomResource">>

createCustomResourceIds == <<"CustomResourceRole", "CustomResource", "VpcConfiguration">>

CreateCustomResource ==
    /\ pc = "createCustomResource"
    /\ callbackRole' = {ExecutionRole("CustomResourceRole", "VpcConfigPolicy",
                                      vpcConfigDocument(ApplicationName))}
    /\ callbackFunction' = {[id |-> "CustomResource",
                             runtime |-> "python3.8",
                             handler |-> "lambda_function.handler",
                             role |-> "CustomResourceRole",
                             code |-> "lambda/kda-vpc-config",
                             timeout |-> 30]}
    /\ customResource' = {VpcConfiguration(props.subnetIds, props.securityGroupIds)}
    /\ defined' = defined \o createCustomResourceIds
    /\ pc' = "done"
    /\ UNCHANGED <<props, error, logGroup, logStream, role, grants, suppressions,
                   conditions, application, logging, resolved, lifecycleVars>>

----------------------------------------------------------------------------
(* The templating engine: parameters get their values, conditions and      *)
(* Fn::If expressions are evaluated.                                       *)

ResolvedValues(v, parameterValues) ==
    IF isUnresolved(v) THEN parameterValues ELSE {v.text}

EvalCondition(logicalId) ==
    \E c \in conditions :
        /\ c.logicalId = logicalId
        /\ c.expression.lhs = c.expression.rhs

EvalIf(e) == IF EvalCondition(e.condition) THEN e.valueIfTrue ELSE e.valueIfFalse

ResolveTemplate ==
    /\ pc = "done"
    /\ \E l \in ResolvedValues(props.logLevel, LogLevelParameterValues),
          m \in ResolvedValues(props.metricsLevel, MetricsLevelParameterValues) :
          \E a \in application :
              resolved' =
                {[logLevel |-> l,
                  metricsLevel |-> m,
                  autoScalingEnabled |->
                      EvalIf(a.parallelismConfiguration.autoScalingEnabled),
                  snapshotsEnabled |->
                      EvalIf(a.applicationSnapshotConfiguration.snapshotsEnabled)]}
    /\ pc' = "resolved"
    /\ UNCHANGED <<props, error, defined, constructVars, lifecycleVars>>

----------------------------------------------------------------------------
(* lambda/kda-vpc-config: the callback that handles the lifecycle events   *)
(* of Custom::VpcConfiguration.                                            *)

DesiredConfigurations(properties) ==
    IF properties.SubnetIds.ids = <<>> /\ properties.SecurityGroupIds.ids = <<>>
    THEN <<>>
    ELSE <<[SubnetIds |-> properties.SubnetIds.ids,
            SecurityGroupIds |-> properties.SecurityGroupIds.ids]>>

ReconcileAddOnly(current, requestType, properties) ==
    IF requestType = "Delete"
    THEN <<>>
    ELSE current \o DesiredConfigurations(properties)

Reconcile(current, requestType, properties) ==
    IF requestType = "Delete"
    THEN <<>>
    ELSE IF current = DesiredConfigurations(properties)
         THEN current
         ELSE DesiredConfigurations(properties)

Handle(requestType, properties) ==
    /\ vpcConfigurations' = Reconcile(vpcConfigurations, requestType, properties)
    /\ before' = vpcConfigurations
    /\ lastRequest' = {[requestType |-> requestType, properties |-> properties]}
    /\ previousRequest' = lastRequest
    /\ invocations' = invocations + 1

OnCreate ==
    /\ pc = "resolved"
    /\ \E r \in customResource : Handle("Create", r.properties)
    /\ pc' = "created"
    /\ UNCHANGED <<props, error, defined, constructVars, resolved>>

OnUpdate ==
    /\ pc = "created"
    /\ invocations < MaxInvocations
    /\ \E subnets \in OptionalLists(SubnetPool),
          securityGroups \in OptionalLists(SecurityGroupPool) :
          /\ props' = [props EXCEPT !.subnetIds = subnets,
                                    !.securityGroupIds = securityGroups]
          /\ customResource' = {VpcConfiguration(subnets, securityGroups)}
          /\ Handle("Update", VpcConfigurationProperties(subnets, securityGroups))
    /\ pc' = "created"
    /\ UNCHANGED <<error, defined, logGroup, logStream, role, grants, suppressions,
                   conditions, application, logging, callbackRole,
                   callbackFunction, resolved>>

OnDelete ==
    /\ pc = "created"
    /\ \E r \in customResource : Handle("Delete", r.properties)
    /\ pc' = "deleted"
    /\ UNCHANGED <<props, error, defined, constructVars, resolved>>

----------------------------------------------------------------------------
(* Specifications *)

Construct ==
    \/ ValidateLogLevel
    \/ ValidateMetricsLevel
    \/ DefineLogGroup
    \/ DefineLogStream
    \/ CreateRole
    \/ GrantRead
    \/ GrantReadWrite
    \/ DefineAutoScalingCondition
    \/ DefineSnapshotCondition
    \/ DefineApplication
    \/ ConfigureLogging
    \/ CreateCustomResource

Next == Construct \/ ResolveTemplate

Spec == Init /\ [][Next]_vars

(* The lifecycle of the network attachment, for one choice of the inputs   *)
(* it does not read.                                                       *)
InitLifecycle ==
    /\ Init
    /\ props.logLevel = Concrete("INFO")
    /\ props.metricsLevel = Concrete("APPLICATION")
    /\ props.codeBucketArn = "arn:aws:s3:::code-a"
    /\ props.enableAutoScaling = "true"
    /\ props.enableSnapshots = "false"

NextLifecycle == Next \/ OnCreate \/ OnUpdate \/ OnDelete

LifecycleSpec == InitLifecycle /\ [][NextLifecycle]_vars

----------------------------------------------------------------------------
(* Properties *)

LogLevelsOfTheContract == {"DEBUG", "ERROR", "INFO", "WARN"}

MetricLevelsOfTheContract == {"APPLICATION", "OPERATOR", "PARALLELISM", "TASK"}

KnownBadLogLevel ==
    ~props.logLevel.unresolved /\ props.logLevel.text \notin LogLevelsOfTheContract

KnownBadMetricsLevel ==
    /\ ~props.metricsLevel.unresolved
    /\ props.metricsLevel.text \notin MetricLevelsOfTheContract

KnownGoodLogLevel ==
    ~props.logLevel.unresolved /\ props.logLevel.text \in LogLevelsOfTheContract

KnownGoodMetricsLevel ==
    /\ ~props.metricsLevel.unresolved
    /\ props.metricsLevel.text \in MetricLevelsOfTheContract

BeforeValidation == {"validateLogLevel", "validateMetricsLevel"}

Constructed == pc \in {"done", "resolved", "created", "deleted"}

NothingDefined ==
    /\ defined = <<>>
    /\ logGroup = {} /\ logStream = {} /\ role = {} /\ grants = {}
    /\ suppressions = {} /\ conditions = {} /\ application = {} /\ logging = {}
    /\ callbackRole = {} /\ callbackFunction = {} /\ customResource = {}

(* C1: a verbosity value known at definition time and outside its allowed  *)
(* set makes the constructor fail with an error whose message names that   *)
(* value (the log level is checked first); with both values inside their   *)
(* allowed sets the constructor never fails and always has a next step     *)
(* until the construct is complete.                                        *)
C1_KnownVerbosityIsValidated ==
    /\ KnownBadLogLevel =>
          /\ pc \in {"validateLogLevel", "failed"}
          /\ pc = "failed" =>
                error.thrown /\ props.logLevel.text \in Range(error.message)
    /\ (~KnownBadLogLevel /\ KnownBadMetricsLevel) =>
          /\ pc \in BeforeValidation \cup {"failed"}
          /\ pc = "failed" =>
                error.thrown /\ props.metricsLevel.text \in Range(error.message)
    /\ (KnownGoodLogLevel /\ KnownGoodMetricsLevel) =>
          /\ pc # "failed"
          /\ ~error.thrown
          /\ ~Constructed => ENABLED Construct

C1_Witness ==
    /\ pc = "failed"
    /\ KnownGoodLogLevel
    /\ props.metricsLevel = Concrete("NONE")
    /\ error.message = <<"Unknown metrics level: ", "NONE">>

(* C2: a verbosity input that is a deferred placeholder is never the       *)
(* cause of a construction failure, whatever it resolves to later; the     *)
(* other field is still validated when it is concrete.                     *)
C2_DeferredVerbosityIsSkipped ==
    /\ (props.logLevel.unresolved /\ props.metricsLevel.unresolved) => pc # "failed"
    /\ (props.logLevel.unresolved /\ pc = "failed") =>
          /\ KnownBadMetricsLevel
          /\ error.message = <<"Unknown metrics level: ", props.metricsLevel.text>>
    /\ (props.metricsLevel.unresolved /\ pc = "failed") =>
          /\ KnownBadLogLevel
          /\ error.message = <<"Unknown log level: ", props.logLevel.text>>
    /\ (props.logLevel.unresolved /\ KnownBadMetricsLevel) => pc \in BeforeValidation \cup {"failed"}
    /\ (props.metricsLevel.unresolved /\ KnownBadLogLevel) => pc \in {"validateLogLevel", "failed"}
    /\ \A r \in resolved :
          (props.logLevel.unresolved \/ props.metricsLevel.unresolved) => ~error.thrown

C2_Witness ==
    /\ pc = "resolved"
    /\ props.logLevel.unresolved
    /\ props.metricsLevel.unresolved
    /\ \E r \in resolved :
          /\ r.logLevel \notin LogLevelsOfTheContract
          /\ r.metricsLevel \notin MetricLevelsOfTheContract

(* C3, as stated: every verbosity validation failure carries an error that *)
(* includes the offending value and the allowed set of values of the       *)
(* field.                                                                  *)
C3_ErrorIncludesValueAndAllowedSet ==
    pc = "failed" =>
        \/ /\ KnownBadLogLevel
           /\ props.logLevel.text \in Range(error.message)
           /\ LogLevelsOfTheContract \subseteq Range(error.message)
        \/ /\ ~KnownBadLogLevel
           /\ KnownBadMetricsLevel
           /\ props.metricsLevel.text \in Range(error.message)
           /\ MetricLevelsOfTheContract \subseteq Range(error.message)

(* C3, amended: every verbosity validation failure carries an error whose  *)
(* message is the name of the field ("Unknown log level: " or "Unknown     *)
(* metrics level: ") followed by the offending value, and nothing else:    *)
(* the allowed set is not part of it.                                      *)
C3_ErrorIsFieldAndValue ==
    pc = "failed" =>
        /\ error.thrown
        /\ \/ /\ KnownBadLogLevel
              /\ error.message = <<"Unknown log level: ", props.logLevel.text>>
              /\ ~(LogLevelsOfTheContract \subseteq Range(error.message))
           \/ /\ ~KnownBadLogLevel
              /\ KnownBadMetricsLevel
              /\ error.message = <<"Unknown metrics level: ", props.metricsLevel.text>>
              /\ ~(MetricLevelsOfTheContract \subseteq Range(error.message))

C3_Witness ==
    /\ pc = "failed"
    /\ props.logLevel = Concrete("TRACE")
    /\ error.message = <<"Unknown log level: ", "TRACE">>

(* C4: once construction has succeeded, the statements attached to the     *)
(* execution identity are exactly seven: the artifact read on bucket ARN + *)
(* "/" + key, the stream's read grant, the bucket's read/write grant, the  *)
(* wildcard log-group describe, the stream describe/put-events on the      *)
(* created log group, the wildcard network-interface lifecycle, and the    *)
(* network-interface permission on the network-interface pattern.          *)
C4_ExactlySevenGrants ==
    Constructed =>
        /\ Cardinality(grants) = 7
        /\ \E g \in grants :
              /\ g.actions = {"s3:GetObjectVersion", "s3:GetObject"}
              /\ g.resources =
                    {<<Lit(props.codeBucketArn), Lit("/"), Lit(props.codeFileKey)>>}
        /\ \E g \in grants :
              /\ g.actions = {"kinesis:grantRead"}
              /\ g.resources = {<<GetAtt(props.inputStream)>>}
        /\ \E g \in grants :
              /\ g.actions = {"s3:grantReadWrite"}
              /\ g.resources = {<<GetAtt(props.outputBucket)>>}
        /\ \E g \in grants :
              /\ g.actions = {"logs:DescribeLogGroups"}
              /\ \A r \in g.resources : r[Len(r)] = Lit(":log-group:*")
        /\ \E g \in grants :
              /\ g.actions = {"logs:DescribeLogStreams", "logs:PutLogEvents"}
              /\ g.resources = {<<GetAtt("LogGroup.Arn")>>}
              /\ logGroup # {}
        /\ \E g \in grants :
              /\ g.actions = {"ec2:CreateNetworkInterface", "ec2:DescribeNetworkInterfaces",
                              "ec2:DescribeVpcs", "ec2:DeleteNetworkInterface",
                              "ec2:DescribeDhcpOptions", "ec2:DescribeSubnets",
                              "ec2:DescribeSecurityGroups"}
              /\ g.resources = {<<Lit("*")>>}
        /\ \E g \in grants :
              /\ g.actions = {"ec2:CreateNetworkInterfacePermission"}
              /\ \A r \in g.resources : r[Len(r)] = Lit(":network-interface/*")
        /\ role = {[id |-> "AppRole", assumedBy |-> "kinesisanalytics.amazonaws.com"]}

C4_Witness ==
    /\ pc = "done"
    /\ Cardinality(grants) = 7
    /\ props.codeBucketArn = "arn:aws:s3:::code-b"

(* C5: once the document is resolved, autoScalingEnabled is true exactly   *)
(* when the auto-scaling toggle is the string "true" and snapshotsEnabled  *)
(* is true exactly when the snapshot toggle is the string "true"; "false"  *)
(* and every other string give false, and neither depends on the other     *)
(* toggle.                                                                 *)
C5_TogglesResolve ==
    \A r \in resolved :
        /\ props.enableAutoScaling = "true" => r.autoScalingEnabled = TRUE
        /\ props.enableAutoScaling = "false" => r.autoScalingEnabled = FALSE
        /\ props.enableAutoScaling \notin {"true", "false"} => r.autoScalingEnabled = FALSE
        /\ props.enableSnapshots = "true" => r.snapshotsEnabled = TRUE
        /\ props.enableSnapshots = "false" => r.snapshotsEnabled = FALSE
        /\ props.enableSnapshots \notin {"true", "false"} => r.snapshotsEnabled = FALSE

C5_Witness ==
    /\ pc = "resolved"
    /\ props.enableAutoScaling = "true"
    /\ props.enableSnapshots = "TRUE"
    /\ \E r \in resolved : r.autoScalingEnabled = TRUE /\ r.snapshotsEnabled = FALSE

(* C6: the network-attachment request always carries a SubnetIds list and  *)
(* a SecurityGroupIds list: a supplied list, empty or not, unchanged and   *)
(* in order, and an empty list for an absent one.                          *)
C6_ListsAlwaysPresent ==
    \A r \in customResource :
        /\ r.properties.SubnetIds.present
        /\ r.properties.SecurityGroupIds.present
        /\ r.properties.SubnetIds.ids =
              (IF props.subnetIds.present THEN props.subnetIds.ids ELSE <<>>)
        /\ r.properties.SecurityGroupIds.ids =
              (IF props.securityGroupIds.present THEN props.securityGroupIds.ids ELSE <<>>)

C6_Witness ==
    /\ pc = "done"
    /\ props.subnetIds = Supplied(<<"subnet-b", "subnet-a">>)
    /\ props.securityGroupIds = Absent
    /\ \E r \in customResource :
          /\ r.properties.SubnetIds = Supplied(<<"subnet-b", "subnet-a">>)
          /\ r.properties.SecurityGroupIds = Supplied(<<>>)

(* C7: when the callback handles a create or update request whose          *)
(* application id, subnet list and security-group list are those of the    *)
(* create or update request handled just before, the network-attachment    *)
(* state after it is the state the earlier request left.                   *)
DesiredStateRequests == {"Create", "Update"}

C9_NothingDefinedOnFailure ==
    (pc = "failed" \/ error.thrown) => (pc = "failed" /\ error.thrown /\ NothingDefined)

C9_Witness ==
    /\ pc = "failed"
    /\ props.logLevel.unresolved
    /\ props.metricsLevel = Concrete("NONE")
    /\ NothingDefined

(* C10: the application is defined before the logging attachment and       *)
(* before the network-attachment request, the request is the last thing    *)
(* defined, and both name the application by the reference to the          *)
(* application resource.                                                   *)
C10_ApplicationFirstRequestLast ==
    /\ "Logging" \in Range(defined) =>
          /\ IndexOf(defined, "Application") > 0
          /\ IndexOf(defined, "Application") < IndexOf(defined, "Logging")
    /\ "VpcConfiguration" \in Range(defined) =>
          /\ IndexOf(defined, "Application") > 0
          /\ IndexOf(defined, "Application") < IndexOf(defined, "VpcConfiguration")
          /\ IndexOf(defined, "Logging") < IndexOf(defined, "VpcConfiguration")
          /\ defined[Len(defined)] = "VpcConfiguration"
    /\ \A l \in logging :
          /\ "Logging" \in Range(defined)
          /\ \E a \in application : l.applicationName = Ref(a.id)
    /\ \A r \in customResource :
          /\ "VpcConfiguration" \in Range(defined)
          /\ \E a \in application : r.properties.ApplicationName = Ref(a.id)
    /\ Constructed => (logging # {} /\ customResource # {} /\ application # {})

C10_Witness ==
    /\ pc = "done"
    /\ logging # {}
    /\ customResource # {}
    /\ defined[Len(defined)] = "VpcConfiguration"

====
